---- MODULE Spec2Model ----
(***************************************************************************)
(* Evania XP / streak backend (src/server.js, src/db.js) as a state        *)
(* machine.  The state is the SQLite database (users, runs, routines,      *)
(* routine_logs; the quest catalog is the seeded, read-only table), the    *)
(* wall clock, the requests that have passed the ensure-user middleware    *)
(* and not yet their handler, the registrations waiting on bcrypt.hash,    *)
(* and the last HTTP response.                                             *)
(*                                                                         *)
(* Representation.                                                         *)
(*  - Time is the epoch in milliseconds (Date.now()).  A local date        *)
(*    "YYYY-MM-DD" is the number of the day it names; the process runs in  *)
(*    UTC, so the date of instant t is t \div DayMs.  created_at, an ISO   *)
(*    string of millisecond precision, is the millisecond it names.        *)
(*  - A JSON number of a request body is a fraction [n, d] (d > 0), so     *)
(*    that 1.5 is a value; the numeric columns base_points and             *)
(*    daily_target of a routine keep it (SQLite stores a non-integral      *)
(*    REAL in an INTEGER column as it is).                                 *)
(*  - SQL NULL is NullText for a TEXT column and NoDate for                *)
(*    last_active_local_date; NaN (a level computed from a negative        *)
(*    total) is NaN.                                                       *)
(*  - nanoid() yields an identifier not in use: a registered user gets an  *)
(*    unused id of NanoIds, a routine or a history row the next position   *)
(*    of its table.                                                        *)
(***************************************************************************)
EXTENDS Integers, Sequences, FiniteSets, TLC

(***************************************************************************)
(* Bounds of the model.                                                    *)
(***************************************************************************)
\* days the clock can reach: local dates 0 .. MaxDay
MaxDay == 3
\* history rows (runs plus routine_logs) the database may hold
MaxRows == 3
\* routines the database may hold
MaxRoutines == 1
\* requests followed from arrival to answer in SpecConcurrent
MaxReq == 2

(***************************************************************************)
(* Program constants.                                                      *)
(***************************************************************************)
DayMs == 24 * 60 * 60 * 1000
SecMs == 1000
DEFAULT_TZ == "Asia/Kolkata"
NullText == "NULL"
NoDate == -1
NaN == -1000000

DefaultThemeColor == "#6C7EFF"
DefaultGoalsJson == "[]"
DefaultMood == "neutral"
DefaultBasePoints == 6
DefaultDailyTarget == 1

\* the seeded catalog, all rows active
Quests ==
  [ q1 |-> [base_points |-> 10, cooldown_sec |-> 0,    active |-> 1],
    q2 |-> [base_points |-> 5,  cooldown_sec |-> 3600, active |-> 1],
    q3 |-> [base_points |-> 12, cooldown_sec |-> 0,    active |-> 1],
    q4 |-> [base_points |-> 15, cooldown_sec |-> 0,    active |-> 1] ]

(***************************************************************************)
(* Numbers.                                                                *)
(***************************************************************************)
Max(a, b) == IF a >= b THEN a ELSE b
Min(a, b) == IF a <= b THEN a ELSE b

\* Math.ceil(a / b) for b > 0
CeilDiv(a, b) == -((-a) \div b)

Whole(n) == [n |-> n, d |-> 1]
Frac(n, d) == [n |-> n, d |-> d]
IsInteger(x) == x.n % x.d = 0

\* JSON values of a request body field: absent (undefined), a number, or a
\* string that is not numeric
Undefined == [t |-> "undefined"]
Num(n, d) == [t |-> "number", n |-> n, d |-> d]
Text(s) == [t |-> "string", s |-> s]

\* const { f = dflt } = body, then Number(f) || dflt: undefined takes the
\* destructuring default, a non-numeric string is NaN and 0 is falsy
NumberOr(v, dflt) ==
  IF v.t = "number" /\ v.n # 0 THEN Frac(v.n, v.d) ELSE Whole(dflt)

\* c >= x for an integer c and a fraction x
IntGE(c, x) == c * x.d >= x.n

(***************************************************************************)
(* Helpers of server.js.                                                   *)
(***************************************************************************)
RECURSIVE HalfSqrt(_, _)
\* the largest k >= k0 with (2k)^2 <= x: floor(sqrt(x) / 2)
HalfSqrt(x, k) == IF 4 * (k + 1) * (k + 1) <= x THEN HalfSqrt(x, k + 1) ELSE k

\* computeLevel without the "+ 1": levels counted from 0
computeLevelFromZero(totalXP) ==
  IF totalXP < 0 THEN NaN ELSE HalfSqrt(totalXP, 0)

\* Math.floor(Math.sqrt(totalXP) / 2) + 1; the square root of a negative
\* number is NaN
computeLevel(totalXP) == IF totalXP < 0 THEN NaN ELSE HalfSqrt(totalXP, 0) + 1

\* the instant's local date, dayjs().format("YYYY-MM-DD")
localDateISO(t) == t \div DayMs

\* dayjs(a).diff(dayjs(b), "day") of two local dates
DayDiff(a, b) == a - b

\* variant: a second completion on the last active date advances the streak
applyStreakProgressPerEvent(u, today) ==
  LET cur == IF u.last_active_local_date = NoDate THEN 1
             ELSE LET diff == DayDiff(today, u.last_active_local_date)
                  IN  IF diff = 0 \/ diff = 1 THEN u.current_streak + 1
                      ELSE 1
  IN  [u EXCEPT !.current_streak = cur,
                !.longest_streak = Max(u.longest_streak, cur),
                !.last_active_local_date = today]

\* variant: the longest streak is not raised with the current one
applyStreakProgressKeepLongest(u, today) ==
  LET cur == IF u.last_active_local_date = NoDate THEN 1
             ELSE LET diff == DayDiff(today, u.last_active_local_date)
                  IN  IF diff = 0 THEN u.current_streak
                      ELSE IF diff = 1 THEN u.current_streak + 1
                      ELSE 1
  IN  [u EXCEPT !.current_streak = cur,
                !.last_active_local_date = today]

\* variant: a completion dated before the last active date is taken as one
\* more of that date
applyStreakProgressIgnoreSkew(u, today) ==
  LET cur == IF u.last_active_local_date = NoDate THEN 1
             ELSE LET diff == DayDiff(today, u.last_active_local_date)
                  IN  IF diff <= 0 THEN u.current_streak
                      ELSE IF diff = 1 THEN u.current_streak + 1
                      ELSE 1
      day == IF u.last_active_local_date = NoDate THEN today
             ELSE Max(today, u.last_active_local_date)
  IN  [u EXCEPT !.current_streak = cur,
                !.longest_streak = Max(u.longest_streak, cur),
                !.last_active_local_date = day]

applyStreakProgress(u, today) ==
  LET cur == IF u.last_active_local_date = NoDate THEN 1
             ELSE LET diff == DayDiff(today, u.last_active_local_date)
                  IN  IF diff = 0 THEN u.current_streak
                      ELSE IF diff = 1 THEN u.current_streak + 1
                      ELSE 1
  IN  [u EXCEPT !.current_streak = cur,
                !.longest_streak = Max(u.longest_streak, cur),
                !.last_active_local_date = today]

\* streakMultiplier with one cap over the per-day and the weekly bonus
streakMultiplierOneCap(streak) ==
  IF streak < 1 THEN 100
  ELSE 100 + Min(5 * streak + 10 * (streak \div 7), 50)

\* streakMultiplier in hundredths: toFixed(2) of 1.0 + perDay + band is the
\* decimal with these hundredths
streakMultiplier(streak) ==
  IF streak < 1 THEN 100
  ELSE 100 + Min(5 * streak, 50) + 10 * (streak \div 7)

\* Integer bases b, |b| <= 1000, for which the IEEE-754 product b * 1.15
\* (resp. b * 1.10) of a value ending in .5 falls on the double below it
TieBelow115 ==
  {50, 90, 110, 170, 190, 210, 330, 350, 370, 390, 410, 430, 650, 670, 690,
   710, 730, 750, 770, 790, 810, 830, 850, 870, 890}
TieBelow110 ==
  {-925, -915, -905, -895, -885, -875, -865, -855, -845, -835, -825, -815,
   -805, -795, -785, -775, -765, -755, -745, -735, -725, -715, -705, -695,
   -685, -675, -665, -655, -645, -465, -455, -445, -435, -425, -415, -405,
   -395, -385, -375, -365, -355, -345, -335, -325, -225, -215, -205, -195,
   -185, -175, -165, -115, -105, -95, -85, -55, -45, -25}

\* round half up of base * mult / 100, on the exact product
RoundHalfUp(base, mult) ==
  (2 * base.n * mult + 100 * base.d) \div (200 * base.d)

\* Math.round(base_points * mult) as the doubles compute it: the product is
\* a double, and Math.round takes floor(x + 0.5) of that double.  Exact for
\* integer bases within -1000 .. 1000 and the multipliers of streaks up to
\* 20; only a product that should end in .5 can differ.
MathRoundProduct(base, mult) ==
  IF base.d = 1 /\ ( (mult = 115 /\ base.n \in TieBelow115)
                  \/ (mult = 110 /\ base.n \in TieBelow110) )
  THEN RoundHalfUp(base, mult) - 1
  ELSE RoundHalfUp(base, mult)

(***************************************************************************)
(* The database.                                                           *)
(***************************************************************************)
UserIds == {"u1"}           \* identities the requests carry (x-user-id, JWT sub)
NanoIds == {"n1"}           \* identifiers nanoid() mints for registrations

VARIABLES
  users,         \* table users: id -> row, for the ids that have a row
  runs,          \* table runs, in insertion order
  routines,      \* table routines, in insertion order; a routine's id is its position
  routine_logs,  \* table routine_logs, in insertion order
  now,           \* the wall clock, epoch milliseconds
  req,           \* requests followed from arrival, through the middleware, to the answer
  pending,       \* registrations waiting on bcrypt.hash
  last           \* the last response

vars == <<users, runs, routines, routine_logs, now, req, pending, last>>

DB == [users |-> users, runs |-> runs, routines |-> routines,
       routine_logs |-> routine_logs]

\* the row both the ensure-user middleware and register insert
NewUser(email, hash) ==
  [ email |-> email, password_hash |-> hash,
    total_xp |-> 0, level |-> 1, current_streak |-> 0, longest_streak |-> 0,
    last_active_local_date |-> NoDate, timezone |-> DEFAULT_TZ,
    avatar_tier |-> 0, theme_color |-> DefaultThemeColor,
    daily_target |-> DefaultDailyTarget, goals_json |-> DefaultGoalsJson,
    baseline_mood |-> DefaultMood, onboarding_done |-> 0 ]

COALESCE(a, b) == IF a # NullText THEN a ELSE b

\* a NaN binds as NULL, which the NOT NULL columns of users refuse
\* a users table without the NOT NULL constraints: any row is stored
UserRowAcceptedUnchecked(u) == TRUE

UserRowAccepted(u) ==
  /\ u.total_xp # NaN /\ u.level # NaN
  /\ u.current_streak # NaN /\ u.longest_streak # NaN /\ u.avatar_tier # NaN

\* sql.upsertUser: insert, or on a conflict on id overwrite the engine
\* columns and keep a stored preference where the new value is NULL
upsertUser(us, id, u) ==
  IF id \notin DOMAIN us
  THEN [x \in DOMAIN us \cup {id} |-> IF x = id THEN u ELSE us[x]]
  ELSE [us EXCEPT ![id] =
         [ email |-> COALESCE(u.email, @.email),
           password_hash |-> COALESCE(u.password_hash, @.password_hash),
           total_xp |-> u.total_xp, level |-> u.level,
           current_streak |-> u.current_streak,
           longest_streak |-> u.longest_streak,
           last_active_local_date |-> u.last_active_local_date,
           timezone |-> u.timezone, avatar_tier |-> u.avatar_tier,
           theme_color |-> COALESCE(u.theme_color, @.theme_color),
           daily_target |-> u.daily_target,   \* COALESCE of a value never NULL
           goals_json |-> COALESCE(u.goals_json, @.goals_json),
           baseline_mood |-> COALESCE(u.baseline_mood, @.baseline_mood),
           onboarding_done |-> u.onboarding_done ]]

\* the ensure-user middleware: the stored row, inserted first when absent
EnsureUser(us, id) ==
  IF id \in DOMAIN us THEN us ELSE upsertUser(us, id, NewUser(NullText, NullText))

\* sql.getQuest: the active catalog row, if any
HasQuest(questId) == questId \in DOMAIN Quests /\ Quests[questId].active = 1

\* variant: WHERE quest_id = ?, the runs of the quest by any user
RunsOfAnyUser(rs, uid, questId) ==
  {i \in 1..Len(rs) : rs[i].quest_id = questId}

\* positions of the rows sql.lastRunForQuest selects from
RunsOf(rs, uid, questId) ==
  {i \in 1..Len(rs) : rs[i].user_id = uid /\ rs[i].quest_id = questId}

\* variant: ORDER BY created_at ASC, the user's first run of the quest
lastRunForQuestOldest(rs, uid, questId) ==
  LET S == RunsOf(rs, uid, questId)
  IN  rs[CHOOSE i \in S : \A j \in S : rs[i].created_at <= rs[j].created_at]

\* sql.lastRunForQuest: ORDER BY created_at DESC LIMIT 1
lastRunForQuest(rs, uid, questId) ==
  LET S == RunsOf(rs, uid, questId)
  IN  rs[CHOOSE i \in S : \A j \in S : rs[j].created_at <= rs[i].created_at]

\* sql.getRoutineById: id, owner and active must match
HasRoutine(rts, id, uid) ==
  id \in 1..Len(rts) /\ rts[id].user_id = uid /\ rts[id].active = 1

\* sql.countRoutineLogsToday
countRoutineLogsToday(ls, id, uid, date) ==
  Cardinality({i \in 1..Len(ls) :
     ls[i].routine_id = id /\ ls[i].user_id = uid /\ ls[i].local_date = date})

\* variant: no rollback, a throw at the second statement keeps the first
TransactionNoRollback(db, afterFirst, afterBoth, fault) ==
  IF fault = 0 THEN [ok |-> TRUE, db |-> afterBoth]
  ELSE [ok |-> FALSE, db |-> IF fault = 2 THEN afterFirst ELSE db]

\* db.transaction(fn)(): the two statements in order; fault is the statement
\* at which the storage layer throws (0: none), and a throw rolls back both
Transaction(db, afterFirst, afterBoth, fault) ==
  IF fault = 0 THEN [ok |-> TRUE, db |-> afterBoth]
  ELSE [ok |-> FALSE, db |-> db]

(***************************************************************************)
(* Responses: the request (route, requester, quest or routine asked for,   *)
(* and the instant it was served at), the HTTP status, and of the body     *)
(* gainedXP, meta.streakMultiplier (in hundredths) and retryAfterSec.      *)
(***************************************************************************)
Response(op, uid, at, status) ==
  [ op |-> op, uid |-> uid, at |-> at, questId |-> "", routineId |-> 0,
    status |-> status, gainedXP |-> 0, mult |-> 0, retryAfterSec |-> 0 ]

(***************************************************************************)
(* POST /api/runs, after the middleware.  found is req.user; t[1..4] are   *)
(* the handler's four readings of the clock, in the order it takes them:   *)
(* Date.now() of the cooldown check, localDateISO() in                     *)
(* applyStreakProgress, new Date() for created_at, localDateISO() for the  *)
(* row's local_date.                                                       *)
(***************************************************************************)
RunReads == 4

\* lines 327-338: streak, multiplier, XP, level, avatar tier
\* lines 327-338 with a promotion at every level-up
RunApplyAnyLevelUp(found, base_points, today) ==
  LET prevLevel == found.level
      u1 == applyStreakProgress(found, today)
      mult == streakMultiplier(u1.current_streak)
      gainedXP == MathRoundProduct(Whole(base_points), mult)
      total == u1.total_xp + gainedXP
      level == computeLevel(total)
      tier == IF level # NaN /\ level > prevLevel
              THEN u1.avatar_tier + 1 ELSE u1.avatar_tier
  IN  [ u |-> [u1 EXCEPT !.total_xp = total, !.level = level,
                         !.avatar_tier = tier],
        gainedXP |-> gainedXP, mult |-> mult ]

RunApply(found, base_points, today) ==
  LET prevLevel == found.level
      u1 == applyStreakProgress(found, today)
      mult == streakMultiplier(u1.current_streak)
      gainedXP == MathRoundProduct(Whole(base_points), mult)
      total == u1.total_xp + gainedXP
      level == computeLevel(total)
      tier == IF level # NaN /\ level > prevLevel /\ level % 5 = 0
              THEN u1.avatar_tier + 1 ELSE u1.avatar_tier
  IN  [ u |-> [u1 EXCEPT !.total_xp = total, !.level = level,
                         !.avatar_tier = tier],
        gainedXP |-> gainedXP, mult |-> mult ]

\* lines 314-325: the wait in seconds the cooldown still asks for at nowMs,
\* 0 when the quest has none, was never run by the user, or it has passed
CooldownWait(rs, uid, questId, nowMs) ==
  LET q == Quests[questId]
  IN  IF q.cooldown_sec > 0 /\ RunsOf(rs, uid, questId) # {}
      THEN LET lastMs == lastRunForQuest(rs, uid, questId).created_at
           IN  IF nowMs - lastMs < q.cooldown_sec * SecMs
               THEN CeilDiv(q.cooldown_sec * SecMs - (nowMs - lastMs), SecMs)
               ELSE 0
      ELSE 0

PostRuns(db, uid, found, questId, t, fault) ==
  LET Answer(status) ==
        [Response("run", uid, t[1], status) EXCEPT !.questId = questId]
  IN
  IF ~HasQuest(questId) THEN [db |-> db, res |-> Answer(400)]
  ELSE
    LET q == Quests[questId]
        waitSec == CooldownWait(db.runs, uid, questId, t[1])
    IN
    IF waitSec > 0
    THEN [db |-> db, res |-> [Answer(429) EXCEPT !.retryAfterSec = waitSec]]
    ELSE
      LET a == RunApply(found, q.base_points, localDateISO(t[2]))
          row == [ user_id |-> uid, quest_id |-> questId,
                   gained_xp |-> a.gainedXP,
                   streak_applied |-> a.u.current_streak,
                   created_at |-> t[3], local_date |-> localDateISO(t[4]) ]
          afterFirst == [db EXCEPT !.users = upsertUser(db.users, uid, a.u)]
          afterBoth == [afterFirst EXCEPT !.runs = Append(db.runs, row)]
          trx == Transaction(db, afterFirst, afterBoth,
                             IF UserRowAccepted(a.u) THEN fault ELSE 1)
      IN  [ db |-> trx.db,
            res |-> IF trx.ok
                    THEN [Answer(200) EXCEPT
                            !.gainedXP = a.gainedXP, !.mult = a.mult]
                    ELSE Answer(500) ]

(***************************************************************************)
(* POST /api/routines/:id/log, after the middleware.  t[1..3] are the      *)
(* handler's readings of the clock: localDateISO() for the daily count     *)
(* and the row, localDateISO() in applyStreakProgress, new Date() for      *)
(* created_at.                                                             *)
(***************************************************************************)
LogReads == 3

\* variant: any level-up promotes the avatar
LogApplyAnyLevelUp(found, base_points, today) ==
  LET prevLevel == found.level
      u1 == applyStreakProgress(found, today)
      mult == streakMultiplier(u1.current_streak)
      gainedXP == MathRoundProduct(base_points, mult)
      total == u1.total_xp + gainedXP
      level == computeLevel(total)
      tier == IF level # NaN /\ level > prevLevel
              THEN u1.avatar_tier + 1 ELSE u1.avatar_tier
  IN  [ u |-> [u1 EXCEPT !.total_xp = total, !.level = level,
                         !.avatar_tier = tier],
        gainedXP |-> gainedXP, mult |-> mult ]

\* variant: one promotion for each multiple of 5 the level passes
LogApplyPerMilestone(found, base_points, today) ==
  LET prevLevel == found.level
      u1 == applyStreakProgress(found, today)
      mult == streakMultiplier(u1.current_streak)
      gainedXP == MathRoundProduct(base_points, mult)
      total == u1.total_xp + gainedXP
      level == computeLevel(total)
      tier == IF level # NaN /\ level > prevLevel
              THEN u1.avatar_tier + (level \div 5) - (prevLevel \div 5)
              ELSE u1.avatar_tier
  IN  [ u |-> [u1 EXCEPT !.total_xp = total, !.level = level,
                         !.avatar_tier = tier],
        gainedXP |-> gainedXP, mult |-> mult ]

\* lines 441-452: the same steps as the quest path, on the routine's points
LogApply(found, base_points, today) ==
  LET prevLevel == found.level
      u1 == applyStreakProgress(found, today)
      mult == streakMultiplier(u1.current_streak)
      gainedXP == MathRoundProduct(base_points, mult)
      total == u1.total_xp + gainedXP
      level == computeLevel(total)
      tier == IF level # NaN /\ level > prevLevel /\ level % 5 = 0
              THEN u1.avatar_tier + 1 ELSE u1.avatar_tier
  IN  [ u |-> [u1 EXCEPT !.total_xp = total, !.level = level,
                         !.avatar_tier = tier],
        gainedXP |-> gainedXP, mult |-> mult ]

\* lines 434-438: the daily target is reached on the date
LimitReached(db, id, uid, date) ==
  IntGE(countRoutineLogsToday(db.routine_logs, id, uid, date),
        db.routines[id].daily_target)

\* variant: the streak and XP update is written before the daily target is
\* tested
PostRoutineLogApplyFirst(db, uid, found, id, t, fault) ==
  LET Answer(status) ==
        [Response("log", uid, t[1], status) EXCEPT !.routineId = id]
  IN
  IF ~HasRoutine(db.routines, id, uid)
  THEN [db |-> db, res |-> Answer(404)]
  ELSE
    LET routine == db.routines[id]
        today == localDateISO(t[1])
        a == LogApply(found, routine.base_points, localDateISO(t[2]))
        row == [ routine_id |-> id, user_id |-> uid,
                 gained_xp |-> a.gainedXP, created_at |-> t[3],
                 local_date |-> today ]
        afterFirst == [db EXCEPT !.users = upsertUser(db.users, uid, a.u)]
        afterBoth == [afterFirst EXCEPT
                        !.routine_logs = Append(db.routine_logs, row)]
        trx == Transaction(db, afterFirst, afterBoth,
                           IF UserRowAccepted(a.u) THEN fault ELSE 1)
    IN
    IF LimitReached(db, id, uid, today)
    THEN [db |-> afterFirst, res |-> Answer(400)]
    ELSE [ db |-> trx.db,
           res |-> IF trx.ok
                   THEN [Answer(200) EXCEPT
                           !.gainedXP = a.gainedXP, !.mult = a.mult]
                   ELSE Answer(500) ]

PostRoutineLog(db, uid, found, id, t, fault) ==
  LET Answer(status) ==
        [Response("log", uid, t[1], status) EXCEPT !.routineId = id]
  IN
  IF ~HasRoutine(db.routines, id, uid)
  THEN [db |-> db, res |-> Answer(404)]
  ELSE
    LET routine == db.routines[id]
        today == localDateISO(t[1])
    IN
    IF LimitReached(db, id, uid, today)
    THEN [db |-> db, res |-> Answer(400)]
    ELSE
      LET a == LogApply(found, routine.base_points, localDateISO(t[2]))
          row == [ routine_id |-> id, user_id |-> uid,
                   gained_xp |-> a.gainedXP, created_at |-> t[3],
                   local_date |-> today ]
          afterFirst == [db EXCEPT !.users = upsertUser(db.users, uid, a.u)]
          afterBoth == [afterFirst EXCEPT
                          !.routine_logs = Append(db.routine_logs, row)]
          trx == Transaction(db, afterFirst, afterBoth,
                             IF UserRowAccepted(a.u) THEN fault ELSE 1)
      IN  [ db |-> trx.db,
            res |-> IF trx.ok
                    THEN [Answer(200) EXCEPT
                            !.gainedXP = a.gainedXP, !.mult = a.mult]
                    ELSE Answer(500) ]

(***************************************************************************)
(* POST /api/routines: title is required; the two numbers are taken as     *)
(* Number(x) || default, with no check of sign or integrality.             *)
(***************************************************************************)
PostRoutines(db, uid, at, hasTitle, dailyTarget, basePoints) ==
  IF ~hasTitle THEN [db |-> db, res |-> Response("routine", uid, at, 400)]
  ELSE
    LET row == [ user_id |-> uid,
                 base_points |-> NumberOr(basePoints, DefaultBasePoints),
                 daily_target |-> NumberOr(dailyTarget, DefaultDailyTarget),
                 active |-> 1 ]
    IN  [ db |-> [db EXCEPT !.routines = Append(db.routines, row)],
          res |-> [Response("routine", uid, at, 201) EXCEPT
                     !.routineId = Len(db.routines) + 1] ]

(***************************************************************************)
(* IEEE-754 doubles, for the numbers of a request body and the sum of the  *)
(* daily targets: a REAL value and a JS number hold the double nearest to  *)
(* the decimal, and + rounds its result to the nearest double, ties to     *)
(* even.  A double other than 0 is                                         *)
(* [neg, limbs, exp]: its 53-bit significand as six digits in base 1024,   *)
(* most significant first (the first is 4..7), read as an integer, times   *)
(* 2^exp; 0 has no limbs.  Subnormals and infinities are out of the range  *)
(* of the model, and so are fractions with a denominator of 2^21 or more.  *)
(***************************************************************************)
Limb == 1024
LimbBits == 10
Precision == 53

DZero == [neg |-> FALSE, limbs |-> <<>>, exp |-> 0]

Zeros(k) == [i \in 1..k |-> 0]

RECURSIVE BitLength(_)
BitLength(n) == IF n = 0 THEN 0 ELSE 1 + BitLength(n \div 2)

RECURSIVE IntLimbs(_)
\* the digits in base Limb of a natural number, most significant first
IntLimbs(n) == IF n = 0 THEN <<>> ELSE Append(IntLimbs(n \div Limb), n % Limb)

RECURSIVE StripLeading(_)
StripLeading(ls) ==
  IF ls # <<>> /\ Head(ls) = 0 THEN StripLeading(Tail(ls)) ELSE ls

RECURSIVE BigDiv(_, _, _, _)
\* long division by a small d of the limbs from i on, with r brought down:
\* the quotient's limbs and the remainder
BigDiv(ls, i, d, r) ==
  IF i > Len(ls) THEN [q |-> <<>>, r |-> r]
  ELSE LET cur == r * Limb + ls[i]
           rest == BigDiv(ls, i + 1, d, cur % d)
       IN  [q |-> <<cur \div d>> \o rest.q, r |-> rest.r]

RECURSIVE BigMul(_, _, _, _)
\* the limbs up to i times a small m, plus the carry c
BigMul(ls, i, m, c) ==
  IF i = 0 THEN (IF c = 0 THEN <<>> ELSE <<c>>)
  ELSE LET cur == ls[i] * m + c
       IN  IF cur < Limb THEN Append(BigMul(ls, i - 1, m, 0), cur)
           ELSE Append(BigMul(ls, i - 1, m, cur \div Limb), cur % Limb)

RECURSIVE BigAdd(_, _, _, _)
\* a + b + c for limb strings of one length, from limb i down
BigAdd(a, b, i, c) ==
  IF i = 0 THEN (IF c = 1 THEN <<1>> ELSE <<>>)
  ELSE LET sum == a[i] + b[i] + c
       IN  IF sum >= Limb THEN Append(BigAdd(a, b, i - 1, 1), sum - Limb)
           ELSE Append(BigAdd(a, b, i - 1, 0), sum)

RECURSIVE BigSub(_, _, _, _)
\* a - b - c for limb strings of one length with a >= b, from limb i down
BigSub(a, b, i, c) ==
  IF i = 0 THEN <<>>
  ELSE LET diff == a[i] - b[i] - c
       IN  IF diff < 0 THEN Append(BigSub(a, b, i - 1, 1), diff + Limb)
           ELSE Append(BigSub(a, b, i - 1, 0), diff)

RECURSIVE BigLess(_, _)
\* a < b for limb strings of one length
BigLess(a, b) ==
  IF a = <<>> THEN FALSE
  ELSE IF Head(a) # Head(b) THEN Head(a) < Head(b)
  ELSE BigLess(Tail(a), Tail(b))

\* the limbs times 2^t
ShiftLeft(ls, t) ==
  BigMul(ls, Len(ls), 2 ^ (t % LimbBits), 0) \o Zeros(t \div LimbBits)

\* the limbs divided by 2^t, and whether a 1 was shifted out
ShiftRight(ls, t) ==
  LET n == Len(ls) - t \div LimbBits
      dv == BigDiv(SubSeq(ls, 1, n), 1, 2 ^ (t % LimbBits), 0)
  IN  [ ls |-> dv.q,
        sticky |-> dv.r # 0 \/ \E i \in (n + 1)..Len(ls) : ls[i] # 0 ]

\* the double nearest to limbs * 2^exp (plus a little, when sticky): the
\* significand is cut to 53 bits and rounded to nearest, ties to even
DNormal(neg, limbs, exp, sticky) ==
  LET ls == StripLeading(limbs)
  IN  IF ls = <<>> THEN DZero
      ELSE
      LET pad == Max(0, 7 - Len(ls))
          wide == ls \o Zeros(pad)
          extra == LimbBits * (Len(wide) - 1) + BitLength(wide[1]) - Precision
          cut == ShiftRight(wide, extra - 1)
          guard == cut.ls[Len(cut.ls)] % 2
          m == StripLeading(BigDiv(cut.ls, 1, 2, 0).q)
          e == exp - LimbBits * pad + extra
      IN  IF guard = 1 /\ (sticky \/ cut.sticky \/ m[Len(m)] % 2 = 1)
          THEN LET up == BigAdd(m, Zeros(Len(m)), Len(m), 1)
               IN  IF up[1] = 8
                   THEN [neg |-> neg, limbs |-> <<4>> \o Zeros(Len(m) - 1),
                         exp |-> e + 1]
                   ELSE [neg |-> neg, limbs |-> up, exp |-> e]
          ELSE [neg |-> neg, limbs |-> m, exp |-> e]

\* the double nearest to the fraction x: x * 2^90 divided out in limbs
ToDouble(x) ==
  IF x.n = 0 THEN DZero
  ELSE LET a == IF x.n < 0 THEN -x.n ELSE x.n
           dv == BigDiv(IntLimbs(a) \o Zeros(9), 1, x.d, 0)
       IN  DNormal(x.n < 0, dv.q, -9 * LimbBits, dv.r # 0)

\* x + y in doubles
DAdd(x, y) ==
  IF x.limbs = <<>> THEN y
  ELSE IF y.limbs = <<>> THEN x
  ELSE LET e == Min(x.exp, y.exp)
           xs == ShiftLeft(x.limbs, x.exp - e)
           ys == ShiftLeft(y.limbs, y.exp - e)
           n == Max(Len(xs), Len(ys))
           xm == Zeros(n - Len(xs)) \o xs
           ym == Zeros(n - Len(ys)) \o ys
       IN  IF x.neg = y.neg
           THEN DNormal(x.neg, BigAdd(xm, ym, n, 0), e, FALSE)
           ELSE IF xm = ym THEN DZero
           ELSE IF BigLess(xm, ym)
           THEN DNormal(y.neg, BigSub(ym, xm, n, 0), e, FALSE)
           ELSE DNormal(x.neg, BigSub(xm, ym, n, 0), e, FALSE)

\* x < y in doubles
DLess(x, y) ==
  LET below(a, b) == a.exp < b.exp \/ (a.exp = b.exp /\ BigLess(a.limbs, b.limbs))
  IN  CASE x.limbs = <<>> /\ y.limbs = <<>> -> FALSE
        [] x.limbs = <<>> -> ~y.neg
        [] y.limbs = <<>> -> x.neg
        [] x.neg /\ ~y.neg -> TRUE
        [] ~x.neg /\ y.neg -> FALSE
        [] ~x.neg /\ ~y.neg -> below(x, y)
        [] OTHER -> below(y, x)

\* x > 0 in doubles
DPositive(x) == x.limbs # <<>> /\ ~x.neg

(***************************************************************************)
(* POST /api/me/prefs: a field of the body is taken when it passes the     *)
(* handler's test (truthy, Number.isInteger, Array.isArray, === true);     *)
(* the UPDATE writes the five preference columns and no other.             *)
(***************************************************************************)
Array(items) == [t |-> "array", items |-> items]
Bool(b) == [t |-> "boolean", b |-> b]
\* if (v): a non-empty string, a number other than 0, true, any array
Truthy(v) ==
  CASE v.t = "string" -> v.s # ""
    [] v.t = "number" -> v.n # 0
    [] v.t = "boolean" -> v.b
    [] v.t = "array" -> TRUE
    [] OTHER -> FALSE

\* better-sqlite3 binds strings and numbers; a boolean or an array throws
\* "SQLite3 can only bind numbers, strings, bigints, buffers, and null"
Bindable(v) == v.t \in {"string", "number"}

RECURSIVE DigitsOf(_)
\* the decimal digits of a natural number, most significant first
DigitsOf(n) == IF n < 10 THEN <<n>> ELSE Append(DigitsOf(n \div 10), n % 10)

RECURSIVE RoundUp(_)
\* one added to the last digit, with the carry out of the first
RoundUp(ds) ==
  IF ds = <<>> THEN [ds |-> <<>>, carry |-> TRUE]
  ELSE LET n == Len(ds)
       IN  IF ds[n] < 9 THEN [ds |-> [ds EXCEPT ![n] = @ + 1], carry |-> FALSE]
           ELSE LET r == RoundUp(SubSeq(ds, 1, n - 1))
                IN  [ds |-> Append(r.ds, 0), carry |-> r.carry]

RECURSIVE StripZeros(_)
StripZeros(ds) ==
  IF ds # <<>> /\ ds[Len(ds)] = 0 THEN StripZeros(SubSeq(ds, 1, Len(ds) - 1))
  ELSE ds

RECURSIVE JoinDigits(_)
JoinDigits(ds) ==
  IF ds = <<>> THEN "" ELSE ToString(Head(ds)) \o JoinDigits(Tail(ds))

(***************************************************************************)
(* A number stored in a TEXT column.  better-sqlite3 binds a JS number as  *)
(* a REAL, the double nearest to the number, and the column's TEXT         *)
(* affinity has SQLite write the magnitude of the double out in decimal    *)
(* and put the sign before it.  SQLite first scales the double to a whole  *)
(* number of 18 or 19 digits, rounded to nearest, and takes every digit    *)
(* it writes from that number: 17 significant digits, unless digits 15     *)
(* and 16 are nines or digits 14 to 16 are zeros, when the digits before   *)
(* that run (one added before nines) are written if reading them back      *)
(* gives the same double.  Zeros at the end are dropped but for one digit  *)
(* after the point ("5.0"); below 1e-4 the text is in exponent form        *)
(* ("1.0e-05").  A decimal here is [ds, exp]: its significant digits and   *)
(* the power of ten of the first, ds[1].ds[2]ds[3].. * 10^exp.             *)
(***************************************************************************)
LongDigits == 17
ScaleDigits == 18

\* groups of three digits taken after the point: enough for ScaleDigits + 2
\* significant digits of any double from 1e-10 up
FractionGroups == 10

\* zero limbs put under a decimal before it is divided by its power of ten,
\* so that the quotient keeps more than 53 bits
GuardLimbs == 14

RECURSIVE LimbsValue(_)
\* the natural number of a short limb string
LimbsValue(ls) ==
  IF ls = <<>> THEN 0
  ELSE LimbsValue(SubSeq(ls, 1, Len(ls) - 1)) * Limb + ls[Len(ls)]

RECURSIVE FractionDigits(_, _)
\* the first 3 * g decimal digits of the fraction f / Limb^Len(f)
FractionDigits(f, g) ==
  IF g = 0 THEN <<>>
  ELSE LET p == BigMul(f, Len(f), 1000, 0)
           top == IF Len(p) > Len(f) THEN p[1] ELSE 0
           rest == IF Len(p) > Len(f) THEN Tail(p) ELSE p
       IN  <<top \div 100, (top \div 10) % 10, top % 10>>
             \o FractionDigits(rest, g - 1)

\* the exact decimal expansion of the magnitude of a double other than 0
\* and below 2^31, cut after 3 * FractionGroups digits behind the point
DecimalOf(x) ==
  LET k == -x.exp
      t == (LimbBits - (k % LimbBits)) % LimbBits
      m == ShiftLeft(x.limbs, t)
      wl == Len(m) - (k + t) \div LimbBits
      whole == IF wl > 0 THEN LimbsValue(SubSeq(m, 1, wl)) ELSE 0
      f == IF wl > 0 THEN SubSeq(m, wl + 1, Len(m)) ELSE Zeros(-wl) \o m
      fd == FractionDigits(f, FractionGroups)
      lead == CHOOSE i \in 1..Len(fd) :
                fd[i] # 0 /\ \A j \in 1..(i - 1) : fd[j] = 0
  IN  IF whole > 0
      THEN [ds |-> DigitsOf(whole) \o fd, exp |-> Len(DigitsOf(whole)) - 1]
      ELSE [ds |-> SubSeq(fd, lead, Len(fd)), exp |-> -lead]

\* the power of ten of 2^e: floor(e * log10(2))
Pow2To10(e) ==
  IF e >= 0 THEN Len(DigitsOf(2 ^ e)) - 1 ELSE -Len(DigitsOf(2 ^ (-e)))

\* dec cut to n digits, the digit after them rounding it, a 5 or more
\* upwards; the zeros at the end are kept
CutDigits(dec, n) ==
  LET head == SubSeq(dec.ds, 1, n)
      r == IF dec.ds[n + 1] >= 5 THEN RoundUp(head)
           ELSE [ds |-> head, carry |-> FALSE]
  IN  IF r.carry THEN [ds |-> <<1>> \o r.ds, exp |-> dec.exp + 1]
      ELSE [ds |-> r.ds, exp |-> dec.exp]

\* the whole number a double is scaled to, from its exact decimal dec and
\* the power of ten p10 of the power of two at or below it: ScaleDigits
\* digits when the two have the same power of ten, one more when the double
\* is a power of ten above
ScaledFrom(dec, p10) == CutDigits(dec, ScaleDigits + dec.exp - p10)

\* the whole number the double x is scaled to, as a decimal
ScaledDigits(x) == ScaledFrom(DecimalOf(x), Pow2To10(x.exp + Precision - 1))

\* the first p digits of the scaled number, one added when the digit after
\* them is 5 or more, and the zeros at the end dropped
RoundDigits(dec, p) ==
  LET head == SubSeq(dec.ds, 1, p)
      r == IF dec.ds[p + 1] >= 5 THEN RoundUp(head)
           ELSE [ds |-> head, carry |-> FALSE]
  IN  IF r.carry THEN [ds |-> <<1>>, exp |-> dec.exp + 1]
      ELSE [ds |-> StripZeros(r.ds), exp |-> dec.exp]

RECURSIVE DigitLimbs(_)
\* the limbs of the natural number with the decimal digits ds
DigitLimbs(ds) ==
  IF ds = <<>> THEN <<>>
  ELSE LET hi == DigitLimbs(SubSeq(ds, 1, Len(ds) - 1))
       IN  BigMul(hi, Len(hi), 10, ds[Len(ds)])

RECURSIVE TimesPow10(_, _)
TimesPow10(ls, q) ==
  IF q = 0 THEN ls ELSE TimesPow10(BigMul(ls, Len(ls), 10, 0), q - 1)

RECURSIVE DivPow10(_, _, _)
\* the limbs divided by 10^q, and whether anything was left over
DivPow10(ls, q, sticky) ==
  IF q = 0 THEN [ls |-> ls, sticky |-> sticky]
  ELSE LET s == Min(q, 6)
           dv == BigDiv(ls, 1, 10 ^ s, 0)
       IN  DivPow10(dv.q, q - s, sticky \/ dv.r # 0)

\* the text of a decimal read back: the double nearest to it
AtoF(dec) ==
  LET q == Len(dec.ds) - 1 - dec.exp
      top == DigitLimbs(dec.ds)
  IN  IF q <= 0 THEN DNormal(FALSE, TimesPow10(top, -q), 0, FALSE)
      ELSE LET dv == DivPow10(top \o Zeros(GuardLimbs), q, FALSE)
           IN  DNormal(FALSE, dv.ls, -LimbBits * GuardLimbs, dv.sticky)

\* e-05, e+15: a sign and at least two digits
ExponentText(e) ==
  LET a == IF e < 0 THEN -e ELSE e
  IN  "e" \o (IF e < 0 THEN "-" ELSE "+") \o (IF a < 10 THEN "0" ELSE "")
        \o ToString(a)

\* the text of a decimal of at most p digits: exponent form when the power
\* of ten is below -4 or not below p, and a digit after the point always
DecimalText(dec, p) ==
  LET n == Len(dec.ds)
      e == dec.exp
      padded == dec.ds \o Zeros(e + 1 - n)
      after == SubSeq(padded, e + 2, Len(padded))
  IN  IF e < -4 \/ e >= p
      THEN ToString(dec.ds[1]) \o "."
             \o JoinDigits(IF n = 1 THEN <<0>> ELSE Tail(dec.ds))
             \o ExponentText(e)
      ELSE IF e < 0 THEN "0." \o JoinDigits(Zeros(-e - 1) \o dec.ds)
      ELSE JoinDigits(SubSeq(padded, 1, e + 1)) \o "."
             \o JoinDigits(IF after = <<>> THEN <<0>> ELSE after)

\* the text of the magnitude x: short when reading short back gives x,
\* and LongDigits digits of the scaled number otherwise
ShortOrLong(scaled, short, x) ==
  IF AtoF(short) = x THEN DecimalText(short, LongDigits)
  ELSE DecimalText(RoundDigits(scaled, LongDigits), LongDigits)

RECURSIVE Before(_, _, _)
\* how many digits of z stand before the run of digits c that ends at the
\* j-th
Before(z, j, c) == IF j > 0 /\ z[j] = c THEN Before(z, j - 1, c) ELSE j

\* the text of the magnitude x from its scaled number.  The digits up to
\* the first of the run are rounded by the next, so nines add one to the
\* digits before them and zeros leave them.
MagnitudeText(scaled, x) ==
  IF scaled.ds[15] = 9 /\ scaled.ds[16] = 9
  THEN ShortOrLong(scaled, RoundDigits(scaled, Before(scaled.ds, 14, 9) + 1), x)
  ELSE IF scaled.ds[14] = 0 /\ scaled.ds[15] = 0 /\ scaled.ds[16] = 0
  THEN ShortOrLong(scaled, RoundDigits(scaled, Before(scaled.ds, 14, 0) + 1), x)
  ELSE DecimalText(RoundDigits(scaled, LongDigits), LongDigits)

\* the text of a double: the digits are those of the magnitude, read back
\* as a magnitude, and the sign is put before them
DoubleText(x) ==
  IF x.limbs = <<>> THEN "0.0"
  ELSE (IF x.neg THEN "-" ELSE "")
         \o MagnitudeText(ScaledDigits(x), [x EXCEPT !.neg = FALSE])

\* n / d as the statement binds it and the column keeps it
RealText(n, d) == DoubleText(ToDouble(Frac(n, d)))

\* the value a truthy, bindable body field leaves in a TEXT column
TextOf(v) == IF v.t = "string" THEN v.s ELSE RealText(v.n, v.d)

\* JSON.stringify of an array of strings, for the arrays the model sends
JSONStringify(items) ==
  CASE items = <<>> -> "[]"
    [] items = <<"sleep">> -> "[\"sleep\"]"
    [] items = <<"sleep", "focus">> -> "[\"sleep\",\"focus\"]"

\* variant: a preference the body does not give is written as its default
PostPrefsDefaults(db, uid, at, body) ==
  LET u == NewUser(NullText, NullText)
      bound == /\ Truthy(body.themeColor) => Bindable(body.themeColor)
               /\ Truthy(body.baselineMood) => Bindable(body.baselineMood)
      theme_color == IF Truthy(body.themeColor) THEN TextOf(body.themeColor)
                     ELSE u.theme_color
      daily_target == IF body.dailyTarget.t = "number" /\ IsInteger(body.dailyTarget)
                      THEN body.dailyTarget.n \div body.dailyTarget.d
                      ELSE u.daily_target
      goals_json == IF body.goals.t = "array" THEN JSONStringify(body.goals.items)
                    ELSE u.goals_json
      baseline_mood == IF Truthy(body.baselineMood) THEN TextOf(body.baselineMood)
                       ELSE u.baseline_mood
      onboarding_done == IF body.onboardingDone.t = "boolean" /\ body.onboardingDone.b
                         THEN 1 ELSE u.onboarding_done
  IN  IF ~bound
      THEN [ db |-> db,
             res |-> Response("prefs", uid, at, 500) @@ [body |-> body] ]
      ELSE
      [ db |-> [db EXCEPT !.users[uid] =
                  [@ EXCEPT !.theme_color = theme_color,
                            !.daily_target = daily_target,
                            !.goals_json = goals_json,
                            !.baseline_mood = baseline_mood,
                            !.onboarding_done = onboarding_done]],
        res |-> Response("prefs", uid, at, 200) @@ [body |-> body] ]

PostPrefs(db, uid, at, body) ==
  LET u == db.users[uid]
      bound == /\ Truthy(body.themeColor) => Bindable(body.themeColor)
               /\ Truthy(body.baselineMood) => Bindable(body.baselineMood)
      theme_color == IF Truthy(body.themeColor) THEN TextOf(body.themeColor)
                     ELSE u.theme_color
      daily_target == IF body.dailyTarget.t = "number" /\ IsInteger(body.dailyTarget)
                      THEN body.dailyTarget.n \div body.dailyTarget.d
                      ELSE u.daily_target
      goals_json == IF body.goals.t = "array" THEN JSONStringify(body.goals.items)
                    ELSE u.goals_json
      baseline_mood == IF Truthy(body.baselineMood) THEN TextOf(body.baselineMood)
                       ELSE u.baseline_mood
      onboarding_done == IF body.onboardingDone.t = "boolean" /\ body.onboardingDone.b
                         THEN 1 ELSE u.onboarding_done
  IN  IF ~bound
      THEN [ db |-> db,
             res |-> Response("prefs", uid, at, 500) @@ [body |-> body] ]
      ELSE
      [ db |-> [db EXCEPT !.users[uid] =
                  [@ EXCEPT !.theme_color = theme_color,
                            !.daily_target = daily_target,
                            !.goals_json = goals_json,
                            !.baseline_mood = baseline_mood,
                            !.onboarding_done = onboarding_done]],
        res |-> Response("prefs", uid, at, 200) @@ [body |-> body] ]

(***************************************************************************)
(* GET /api/insights/weekly, after the middleware.  t[1] and t[2] are the  *)
(* handler's readings of the clock: dayjs() for today, dayjs() for the     *)
(* start of the window.  The rows are selected BETWEEN start AND today     *)
(* and bucketed on the seven dates that end with today.                    *)
(***************************************************************************)
InsightReads == 2

\* subtract(6, "day"): the window starts six days back
WindowBack == 6

\* the seven days of the window, the divisor of the completion rate
WeekDays == 7

\* routines.reduce((acc, r) => acc + (r.daily_target || 0), 0) || 0 over the
\* user's active routines
RECURSIVE dailyTargetTotal(_, _)
dailyTargetTotal(rts, uid) ==
  IF rts = <<>> THEN DZero
  ELSE LET r == rts[Len(rts)]
           rest == dailyTargetTotal(SubSeq(rts, 1, Len(rts) - 1), uid)
       IN  IF r.user_id = uid /\ r.active = 1
           THEN DAdd(rest, ToDouble(r.daily_target)) ELSE rest

\* the rows of the user that the SELECT ... GROUP BY local_date yields for
\* date d, and that the day map has a bucket for
Bucket(rows, uid, d, start, today) ==
  {i \in 1..Len(rows) :
     /\ rows[i].user_id = uid
     /\ rows[i].local_date = d
     /\ start <= rows[i].local_date /\ rows[i].local_date <= today
     /\ today - WindowBack <= d /\ d <= today}

RECURSIVE SumGained(_, _)
SumGained(rows, S) ==
  IF S = {} THEN 0
  ELSE LET i == CHOOSE x \in S : TRUE
       IN  rows[i].gained_xp + SumGained(rows, S \ {i})

\* lines 531-539: the days of the window whose routine logs reach the total
DaysMetTarget(db, uid, start, today, total) ==
  Cardinality({d \in (today - WindowBack)..today :
     /\ DPositive(total)
     /\ ~DLess(ToDouble(Whole(
           Cardinality(Bucket(db.routine_logs, uid, d, start, today)))),
         total)})

\* Math.round((daysMetTarget / 7) * 100); no such quotient ends in .5
CompletionRate(total, daysMet) ==
  IF DPositive(total)
  THEN (2 * 100 * daysMet + WeekDays) \div (2 * WeekDays) ELSE 0

RiskBand(rate) ==
  IF rate >= 70 THEN "Green" ELSE IF rate >= 40 THEN "Amber" ELSE "Red"

\* variant: the read marks the user active today
GetWeeklyInsightsTouch(db, uid, t) ==
  LET today == localDateISO(t[1])
      start == localDateISO(t[2]) - WindowBack
      days == (today - WindowBack)..today
      total == dailyTargetTotal(db.routines, uid)
      daysMet == DaysMetTarget(db, uid, start, today, total)
      rate == CompletionRate(total, daysMet)
      runsIn == UNION {Bucket(db.runs, uid, d, start, today) : d \in days}
      logsIn == UNION {Bucket(db.routine_logs, uid, d, start, today) : d \in days}
  IN  [ db |-> [db EXCEPT !.users[uid].last_active_local_date = today],
        res |-> [ op |-> "insights", uid |-> uid, at |-> t[1], status |-> 200,
                  start |-> start, end |-> today,
                  xp |-> SumGained(db.runs, runsIn),
                  quests |-> Cardinality(runsIn),
                  routineLogs |-> Cardinality(logsIn),
                  dailyTargetTotal |-> total,
                  daysMetTarget |-> daysMet,
                  completionRate |-> rate,
                  riskBand |-> RiskBand(rate),
                  current |-> db.users[uid].current_streak,
                  longest |-> db.users[uid].longest_streak,
                  tier |-> db.users[uid].avatar_tier ] ]

GetWeeklyInsights(db, uid, t) ==
  LET today == localDateISO(t[1])
      start == localDateISO(t[2]) - WindowBack
      days == (today - WindowBack)..today
      total == dailyTargetTotal(db.routines, uid)
      daysMet == DaysMetTarget(db, uid, start, today, total)
      rate == CompletionRate(total, daysMet)
      runsIn == UNION {Bucket(db.runs, uid, d, start, today) : d \in days}
      logsIn == UNION {Bucket(db.routine_logs, uid, d, start, today) : d \in days}
  IN  [ db |-> db,
        res |-> [ op |-> "insights", uid |-> uid, at |-> t[1], status |-> 200,
                  start |-> start, end |-> today,
                  xp |-> SumGained(db.runs, runsIn),
                  quests |-> Cardinality(runsIn),
                  routineLogs |-> Cardinality(logsIn),
                  dailyTargetTotal |-> total,
                  daysMetTarget |-> daysMet,
                  completionRate |-> rate,
                  riskBand |-> RiskBand(rate),
                  current |-> db.users[uid].current_streak,
                  longest |-> db.users[uid].longest_streak,
                  tier |-> db.users[uid].avatar_tier ] ]

(***************************************************************************)
(* POST /api/auth/register: the checks and nanoid() run before             *)
(* bcrypt.hash is awaited, the insert after it.                            *)
(***************************************************************************)
EmailTaken(us, email) == \E x \in DOMAIN us : us[x].email = email

PasswordHash == "bcrypt"

\* the row the insert writes for a registration
Registered(email) == NewUser(email, PasswordHash)

(***************************************************************************)
(* The clock.  A handler reads the clock several times while it runs: the  *)
(* first reading of a handler that takes n of them is the instant the      *)
(* request is served at, and the k-th and later readings see the next      *)
(* millisecond (k = n + 1: none does).                                     *)
(***************************************************************************)
Reads(n, k) == [i \in 1..n |-> IF i >= k THEN now + 1 ELSE now]

\* the k a handler may take, given the instants the specification samples
Elapse(n, instants) ==
  {n + 1} \cup (IF now + 1 \in instants THEN 2..n ELSE {})

Rows == Len(runs) + Len(routine_logs)

\* the database becomes db, the answer res
Commit(db, res) ==
  /\ users' = db.users
  /\ runs' = db.runs
  /\ routines' = db.routines
  /\ routine_logs' = db.routine_logs
  /\ last' = res

\* the database with the requester's row ensured
Ensured(uid) == [DB EXCEPT !.users = EnsureUser(users, uid)]

(***************************************************************************)
(* Requests.  Express runs the ensure-user middleware and the handler of   *)
(* a synchronous route in one turn of the event loop: one action.  It      *)
(* starts no turn while a request followed in req is between its           *)
(* middleware and its handler.                                             *)
(***************************************************************************)
\* variant: a request may enter while another is between its middleware and
\* its handler
MayEnterAnytime(rq) == \A i \in DOMAIN rq : rq[i].stage \in {"received", "entered", "done"}

\* the middleware ends in next(), which calls the handler before the event
\* loop serves anything else: no request enters while one has entered and
\* not been answered
MayEnter(rq) == \A i \in DOMAIN rq : rq[i].stage # "entered"

Init ==
  /\ users = <<>>
  /\ runs = <<>>
  /\ routines = <<>>
  /\ routine_logs = <<>>
  /\ now = 0
  /\ req = <<>>
  /\ pending = {}
  /\ last = Response("none", "", 0, 0)

Tick(t) ==
  /\ t > now
  /\ now' = t
  /\ UNCHANGED <<users, runs, routines, routine_logs, req, pending, last>>

Runs(uid, questId, k, fault) ==
  LET db == Ensured(uid)
      r == PostRuns(db, uid, db.users[uid], questId, Reads(RunReads, k), fault)
  IN  /\ MayEnter(req)
      /\ Len(r.db.runs) = Len(runs) \/ Rows < MaxRows
      /\ Commit(r.db, r.res)
      /\ now' = IF k <= RunReads THEN now + 1 ELSE now
      /\ UNCHANGED <<req, pending>>

RoutineLog(uid, id, k, fault) ==
  LET db == Ensured(uid)
      r == PostRoutineLog(db, uid, db.users[uid], id, Reads(LogReads, k), fault)
  IN  /\ MayEnter(req)
      /\ Len(r.db.routine_logs) = Len(routine_logs) \/ Rows < MaxRows
      /\ Commit(r.db, r.res)
      /\ now' = IF k <= LogReads THEN now + 1 ELSE now
      /\ UNCHANGED <<req, pending>>

CreateRoutine(uid, hasTitle, dailyTarget, basePoints) ==
  LET r == PostRoutines(Ensured(uid), uid, now, hasTitle, dailyTarget, basePoints)
  IN  /\ MayEnter(req)
      /\ Len(r.db.routines) <= MaxRoutines
      /\ Commit(r.db, r.res)
      /\ UNCHANGED <<now, req, pending>>

Prefs(uid, body) ==
  LET r == PostPrefs(Ensured(uid), uid, now, body)
  IN  /\ MayEnter(req)
      /\ Commit(r.db, r.res)
      /\ UNCHANGED <<now, req, pending>>

Insights(uid, k) ==
  LET r == GetWeeklyInsights(Ensured(uid), uid, Reads(InsightReads, k))
  IN  /\ MayEnter(req)
      /\ Commit(r.db, r.res)
      /\ now' = IF k <= InsightReads THEN now + 1 ELSE now
      /\ UNCHANGED <<req, pending>>

\* register up to the await: 400 without email or password, 409 for a known
\* email, else the registration waits for its hash under a new id
RegisterBegin(uid, id, email, password) ==
  LET db == Ensured(uid)
      bad == email = "" \/ password = ""
      taken == EmailTaken(db.users, email)
  IN  /\ MayEnter(req)
      /\ id \notin DOMAIN db.users
      /\ \A p \in pending : p.id # id
      /\ Commit(db, Response("register", uid, now,
                             IF bad THEN 400 ELSE IF taken THEN 409 ELSE 0))
      /\ pending' = IF bad \/ taken THEN pending
                    ELSE pending \cup {[id |-> id, email |-> email]}
      /\ UNCHANGED <<now, req>>

\* register after the await: the insert, which a UNIQUE email taken in the
\* meantime refuses.  The throw rejects the promise of the async handler,
\* which Express does not observe: nothing is written and no answer is sent
\* (status 0, as while the registration waits for its hash)
RegisterEnd(p) ==
  LET ok == ~EmailTaken(users, p.email)
      db == IF ok THEN [DB EXCEPT !.users = upsertUser(users, p.id, Registered(p.email))]
            ELSE DB
  IN  /\ MayEnter(req)
      /\ p \in pending
      /\ pending' = pending \ {p}
      /\ Commit(db, Response("register", p.id, now, IF ok THEN 200 ELSE 0))
      /\ UNCHANGED <<now, req>>

(***************************************************************************)
(* The specification: one identity sends every request, a second user     *)
(* registers, and the clock is sampled at the first millisecond of each    *)
(* day.                                                                    *)
(***************************************************************************)
Instants == {d * DayMs : d \in 0..MaxDay}

Requesters == UserIds

QuestIds == {"q1", "q2", "zz"}

Faults == {0, 2}

RoutineBodies ==
  { [dailyTarget |-> Num(2, 1),      basePoints |-> Num(400, 1)],
    [dailyTarget |-> Num(3, 2),      basePoints |-> Num(50, 1)],
    [dailyTarget |-> Text("daily"),  basePoints |-> Num(-10, 1)],
    [dailyTarget |-> Num(0, 1),      basePoints |-> Undefined] }

NoPrefs ==
  [ themeColor |-> Undefined, dailyTarget |-> Undefined, goals |-> Undefined,
    baselineMood |-> Undefined, onboardingDone |-> Undefined ]

PrefBodies ==
  { [NoPrefs EXCEPT !.themeColor = Text("#000000"), !.dailyTarget = Num(3, 1)] }

Emails == {"a@x"}

Next ==
  \/ \E t \in Instants : Tick(t)
  \/ \E uid \in Requesters, q \in QuestIds, f \in Faults :
       \E k \in Elapse(RunReads, Instants) : Runs(uid, q, k, f)
  \/ \E uid \in Requesters, id \in 1..MaxRoutines, f \in Faults :
       \E k \in Elapse(LogReads, Instants) : RoutineLog(uid, id, k, f)
  \/ \E uid \in Requesters, b \in RoutineBodies, hasTitle \in BOOLEAN :
       CreateRoutine(uid, hasTitle, b.dailyTarget, b.basePoints)
  \/ \E uid \in Requesters, b \in PrefBodies : Prefs(uid, b)
  \/ \E uid \in Requesters, id \in NanoIds, e \in Emails \cup {""} :
       RegisterBegin(uid, id, e, "secret")
  \/ \E p \in pending : RegisterEnd(p)

Spec == Init /\ [][Next]_vars

(***************************************************************************)
(* A completion request followed step by step.  It arrives and its body    *)
(* is parsed (express.json, asynchronous), it passes the ensure-user       *)
(* middleware, which reads req.user, and its handler runs on that          *)
(* req.user.  with is the requests it found in flight when it arrived.     *)
(***************************************************************************)
InFlight(rq) == {i \in DOMAIN rq : rq[i].stage # "done"}

Receive(uid, op, questId, routineId) ==
  /\ Len(req) < MaxReq
  /\ req' = Append(req, [ uid |-> uid, op |-> op, questId |-> questId,
                          routineId |-> routineId, stage |-> "received",
                          user |-> NewUser(NullText, NullText),
                          with |-> InFlight(req), status |-> 0 ])
  /\ UNCHANGED <<users, runs, routines, routine_logs, now, pending, last>>

\* lines 163-189 for the i-th request
Enter(i) ==
  /\ i \in DOMAIN req
  /\ req[i].stage = "received"
  /\ MayEnter(req)
  /\ users' = EnsureUser(users, req[i].uid)
  /\ req' = [req EXCEPT ![i].stage = "entered", ![i].user = users'[req[i].uid]]
  /\ UNCHANGED <<runs, routines, routine_logs, now, pending, last>>

\* the handler of the i-th request, on the req.user its middleware read
Handle(i, k, fault) ==
  /\ i \in DOMAIN req
  /\ req[i].stage = "entered"
  /\ LET c == req[i]
         r == IF c.op = "run"
              THEN PostRuns(DB, c.uid, c.user, c.questId, Reads(RunReads, k), fault)
              ELSE PostRoutineLog(DB, c.uid, c.user, c.routineId,
                                  Reads(LogReads, k), fault)
     IN  /\ Rows < MaxRows
         /\ Commit(r.db, r.res)
         /\ req' = [req EXCEPT ![i].stage = "done", ![i].status = r.res.status]
         /\ now' = IF k <= (IF c.op = "run" THEN RunReads ELSE LogReads)
                   THEN now + 1 ELSE now
  /\ UNCHANGED pending

NextConcurrent ==
  \/ \E t \in Instants : Tick(t)
  \/ \E uid \in Requesters :
       CreateRoutine(uid, TRUE, Undefined, Undefined)
  \/ \E uid \in Requesters : Receive(uid, "run", "q1", 0)
  \/ \E uid \in Requesters : Receive(uid, "log", "", 1)
  \/ \E i \in 1..MaxReq : Enter(i)
  \/ \E i \in 1..MaxReq, f \in Faults : Handle(i, RunReads + 1, f)

SpecConcurrent == Init /\ [][NextConcurrent]_vars

(***************************************************************************)
(* The cooldown of q2 followed to the millisecond: the clock is sampled    *)
(* around half the cooldown, its end, and the end of a second one.         *)
(***************************************************************************)
CooldownMs == Quests["q2"].cooldown_sec * SecMs

CooldownInstants ==
  { 0, CooldownMs \div 2, CooldownMs \div 2 + 500, CooldownMs - 1, CooldownMs,
    CooldownMs + 1, CooldownMs + SecMs, CooldownMs + SecMs + CooldownMs \div 2,
    2 * CooldownMs, 2 * CooldownMs + 1 }

NextCooldown ==
  \/ \E t \in CooldownInstants : Tick(t)
  \/ \E uid \in Requesters, q \in {"q1", "q2"} :
       \E k \in Elapse(RunReads, CooldownInstants) : Runs(uid, q, k, 0)

SpecCooldown == Init /\ [][NextCooldown]_vars

(***************************************************************************)
(* Two users.  Each identity has sent a request, and two routines exist:   *)
(* the first created by u1, the second by u1 or by u2 (POST /api/routines  *)
(* with a title and no numbers).  The clock is sampled inside and at the   *)
(* end of the cooldown of q2 and on the next day.                          *)
(***************************************************************************)
TwoUsers == {"u1", "u2"}

\* the database after owner1 and owner2 have each created a routine
WithRoutines(owner1, owner2) ==
  LET empty == [users |-> <<>>, runs |-> <<>>, routines |-> <<>>,
                routine_logs |-> <<>>]
      first == PostRoutines([empty EXCEPT !.users = EnsureUser(@, owner1)],
                            owner1, 0, TRUE, Undefined, Undefined).db
  IN  PostRoutines([first EXCEPT !.users = EnsureUser(@, owner2)],
                   owner2, 0, TRUE, Undefined, Undefined).db

InitUsers ==
  /\ \E owner \in TwoUsers :
       LET db == WithRoutines("u1", owner)
       IN  /\ users = EnsureUser(db.users, "u2")
           /\ runs = db.runs
           /\ routines = db.routines
           /\ routine_logs = db.routine_logs
  /\ now = 0
  /\ req = <<>>
  /\ pending = {}
  /\ last = Response("none", "", 0, 0)

UsersInstants == {0, CooldownMs \div 2, CooldownMs, DayMs}

NextUsers ==
  \/ \E t \in UsersInstants : Tick(t)
  \/ \E uid \in TwoUsers, q \in QuestIds : Runs(uid, q, RunReads + 1, 0)
  \/ \E uid \in TwoUsers, id \in 1..3 : RoutineLog(uid, id, LogReads + 1, 0)

SpecUsers == InitUsers /\ [][NextUsers]_vars

(***************************************************************************)
(* The weekly insights.  The database starts as the log handler leaves it  *)
(* after u1 has created no, one or two routines (a title, no numbers) and  *)
(* logged each of them once on every day of a set of days; the clock then  *)
(* moves the window past those days.                                       *)
(***************************************************************************)
\* days the clock can reach in SpecInsights
MaxInsightDay == 8

\* one log of each routine of ids on each day of S, by day
RECURSIVE History(_, _)
History(S, ids) ==
  IF S = {} THEN <<>>
  ELSE LET d == CHOOSE x \in S : \A y \in S : x <= y
       IN  [i \in 1..Cardinality(ids) |-> [day |-> d, id |-> i]]
             \o History(S \ {d}, ids)

\* the database after uid has sent the log requests of events, one by one
RECURSIVE Replay(_, _, _)
Replay(db, uid, events) ==
  IF events = <<>> THEN db
  ELSE LET e == Head(events)
           t == e.day * DayMs
       IN  Replay(PostRoutineLog(db, uid, db.users[uid], e.id,
                                 <<t, t, t>>, 0).db,
                  uid, Tail(events))

InitInsights ==
  /\ \E n \in 0..2 :
       \E S \in IF n = 0 THEN {{}} ELSE SUBSET (0..WindowBack) :
         LET empty == [users |-> <<>>, runs |-> <<>>, routines |-> <<>>,
                       routine_logs |-> <<>>]
             created == IF n = 0 THEN [empty EXCEPT !.users = EnsureUser(@, "u1")]
                        ELSE IF n = 1
                        THEN PostRoutines([empty EXCEPT !.users = EnsureUser(@, "u1")],
                                          "u1", 0, TRUE, Undefined, Undefined).db
                        ELSE WithRoutines("u1", "u1")
             db == Replay(created, "u1", History(S, 1..n))
         IN  /\ users = db.users
             /\ runs = db.runs
             /\ routines = db.routines
             /\ routine_logs = db.routine_logs
             /\ now = IF S = {} THEN 0
                      ELSE DayMs * (CHOOSE x \in S : \A y \in S : y <= x)
  /\ req = <<>>
  /\ pending = {}
  /\ last = Response("none", "", 0, 0)

InsightInstants == {d * DayMs : d \in 0..MaxInsightDay}

NextInsights ==
  \/ \E t \in InsightInstants : Tick(t)
  \/ \E uid \in Requesters : Runs(uid, "q1", RunReads + 1, 0)
  \/ \E uid \in Requesters, id \in 1..2 : RoutineLog(uid, id, LogReads + 1, 0)
  \/ \E uid \in Requesters :
       \E k \in Elapse(InsightReads, InsightInstants) : Insights(uid, k)

SpecInsights == InitInsights /\ [][NextInsights]_vars

(***************************************************************************)
(* Preference updates.  A user has registered, by a request sent as u1,    *)
(* whose row the middleware ensured; the requests carry the registered     *)
(* user's token and send runs of q1 and partial preference bodies.         *)
(***************************************************************************)
InitPrefs ==
  /\ users = upsertUser(EnsureUser(<<>>, "u1"), "n1", Registered("a@x"))
  /\ runs = <<>>
  /\ routines = <<>>
  /\ routine_logs = <<>>
  /\ now = 0
  /\ req = <<>>
  /\ pending = {}
  /\ last = Response("none", "", 0, 0)

PartialPrefBodies ==
  { NoPrefs,
    [NoPrefs EXCEPT !.themeColor = Text("#000000")],
    [NoPrefs EXCEPT !.dailyTarget = Num(3, 1)],
    [NoPrefs EXCEPT !.goals = Array(<<"sleep">>), !.baselineMood = Text("calm")],
    [NoPrefs EXCEPT !.onboardingDone = Bool(TRUE)],
    [NoPrefs EXCEPT !.themeColor = Text(""), !.dailyTarget = Num(3, 2),
                    !.onboardingDone = Bool(FALSE)],
    [NoPrefs EXCEPT !.themeColor = Num(0, 1)],
    [NoPrefs EXCEPT !.baselineMood = Bool(TRUE), !.dailyTarget = Num(2, 1)] }

PrefInstants == {0, DayMs}

NextPrefs ==
  \/ \E t \in PrefInstants : Tick(t)
  \/ \E uid \in NanoIds : Runs(uid, "q1", RunReads + 1, 0)
  \/ \E uid \in NanoIds, b \in PartialPrefBodies : Prefs(uid, b)

SpecPrefs == InitPrefs /\ [][NextPrefs]_vars

(***************************************************************************)
(* The pure functions on their own: the calls computeLevel(totalXP) for    *)
(* every non-negative total up to MaxXP and streakMultiplier(streak) for   *)
(* every streak from -1 to MaxStreak, in any order.  last holds the last   *)
(* call, its argument and the value it returned.                           *)
(***************************************************************************)
MaxXP == 120
MaxStreak == 22

Call(fn, arg, value) == [op |-> fn, arg |-> arg, value |-> value]

InitPure ==
  /\ users = <<>>
  /\ runs = <<>>
  /\ routines = <<>>
  /\ routine_logs = <<>>
  /\ now = 0
  /\ req = <<>>
  /\ pending = {}
  /\ last = Call("none", 0, 0)

Level(totalXP) ==
  /\ last' = Call("computeLevel", totalXP, computeLevel(totalXP))
  /\ UNCHANGED <<users, runs, routines, routine_logs, now, req, pending>>

Multiplier(streak) ==
  /\ last' = Call("streakMultiplier", streak, streakMultiplier(streak))
  /\ UNCHANGED <<users, runs, routines, routine_logs, now, req, pending>>

NextPure ==
  \/ \E totalXP \in 0..MaxXP : Level(totalXP)
  \/ \E streak \in -1..MaxStreak : Multiplier(streak)

SpecPure == InitPure /\ [][NextPure]_vars

(***************************************************************************)
(* Clock skew: the system clock that dayjs() and Date.now() read may be    *)
(* set back between two requests, so a completion can be dated before the  *)
(* user's last active date.                                                *)
(***************************************************************************)
SetBack(t) ==
  /\ t < now
  /\ now' = t
  /\ UNCHANGED <<users, runs, routines, routine_logs, req, pending, last>>

SkewQuests == {"q1", "q2"}

NextSkew ==
  \/ \E t \in Instants : Tick(t)
  \/ \E t \in Instants : SetBack(t)
  \/ \E uid \in Requesters, q \in SkewQuests : Runs(uid, q, RunReads + 1, 0)
  \/ \E uid \in Requesters : RoutineLog(uid, 1, LogReads + 1, 0)
  \/ \E uid \in Requesters : CreateRoutine(uid, TRUE, Undefined, Undefined)

SpecSkew == Init /\ [][NextSkew]_vars

(***************************************************************************)
(* Midnight: a request may be served while the local date changes.  The    *)
(* handlers read the clock several times (lines 319, 116, 347, 349 of a    *)
(* run; 434, 116, 456 of a log), and the reads from the k-th on see the    *)
(* next millisecond, which at DayMs - 1 is the next day.                   *)
(***************************************************************************)
MidnightInstants == {0, DayMs - 1, DayMs, 2 * DayMs - 1, 2 * DayMs}

NextMidnight ==
  \/ \E t \in MidnightInstants : Tick(t)
  \/ \E uid \in Requesters, q \in SkewQuests :
       \E k \in Elapse(RunReads, MidnightInstants) : Runs(uid, q, k, 0)
  \/ \E uid \in Requesters :
       \E k \in Elapse(LogReads, MidnightInstants) : RoutineLog(uid, 1, k, 0)
  \/ \E uid \in Requesters : CreateRoutine(uid, TRUE, Num(2, 1), Undefined)

SpecMidnight == Init /\ [][NextMidnight]_vars

(***************************************************************************)
(* Fractional targets.  POST /api/routines stores a dailyTarget that is    *)
(* not an integer as it is; the user has created three such routines, and  *)
(* logs them and asks for the weekly insights.                             *)
(***************************************************************************)
FractionalTargets == <<Num(1, 10), Num(27, 10), Num(2, 10)>>

RECURSIVE WithTargets(_, _, _)
\* the database after uid has created a routine for each target, in order
WithTargets(db, uid, targets) ==
  IF targets = <<>> THEN db
  ELSE WithTargets(PostRoutines(db, uid, 0, TRUE, Head(targets), Undefined).db,
                   uid, Tail(targets))

InitFractional ==
  /\ LET empty == [users |-> EnsureUser(<<>>, "u1"), runs |-> <<>>,
                   routines |-> <<>>, routine_logs |-> <<>>]
         db == WithTargets(empty, "u1", FractionalTargets)
     IN  /\ users = db.users
         /\ runs = db.runs
         /\ routines = db.routines
         /\ routine_logs = db.routine_logs
  /\ now = 0
  /\ req = <<>>
  /\ pending = {}
  /\ last = Response("none", "", 0, 0)

FractionalInstants == {0, DayMs, 2 * DayMs}

NextFractional ==
  \/ \E t \in FractionalInstants : Tick(t)
  \/ \E uid \in Requesters, id \in 1..Len(FractionalTargets) :
       RoutineLog(uid, id, LogReads + 1, 0)
  \/ \E uid \in Requesters : Insights(uid, InsightReads + 1)

SpecFractional == InitFractional /\ [][NextFractional]_vars

(***************************************************************************)
(* Properties.  A completion is a step that adds a row to runs or to       *)
(* routine_logs; the state a handler starts from is the stored row of its  *)
(* user, created by the middleware when absent.                            *)
(***************************************************************************)
Stored(uid) == EnsureUser(users, uid)[uid]

Completed == Len(runs') + Len(routine_logs') > Rows

Completer ==
  IF Len(runs') > Len(runs) THEN runs'[Len(runs')].user_id
  ELSE routine_logs'[Len(routine_logs')].user_id

RECURSIVE SumXP(_, _)
SumXP(rows, uid) ==
  IF rows = <<>> THEN 0
  ELSE (IF Head(rows).user_id = uid THEN Head(rows).gained_xp ELSE 0)
       + SumXP(Tail(rows), uid)

\* C1: every completion on local date today sets currentStreak to 1 when no
\* last active date is stored, leaves it unchanged when today is the last
\* active date, raises it by exactly 1 when today is the day after it, and
\* sets it to 1 when today is two or more days after it.
StreakFollowsDates ==
  [][Completed =>
      LET old == Stored(Completer)
          new == users'[Completer]
          lastActive == old.last_active_local_date
          today == localDateISO(now)
      IN  /\ lastActive = NoDate => new.current_streak = 1
          /\ lastActive # NoDate /\ today = lastActive
               => new.current_streak = old.current_streak
          /\ lastActive # NoDate /\ today = lastActive + 1
               => new.current_streak = old.current_streak + 1
          /\ lastActive # NoDate /\ today >= lastActive + 2
               => new.current_streak = 1]_vars

\* a first completion, one on the next day and a second one on that day:
\* the streak is 2
StreakAdvancedOncePerDay ==
  /\ Len(runs) + Len(routine_logs) = 3
  /\ "u1" \in DOMAIN users
  /\ users["u1"].current_streak = 2
  /\ users["u1"].last_active_local_date = 1
  /\ Cardinality({i \in 1..Len(runs) : runs[i].local_date = 1})
       + Cardinality({i \in 1..Len(routine_logs) :
                        routine_logs[i].local_date = 1}) = 2

\* C2: in every stored user row longestStreak >= currentStreak >= 0.
LongestBoundsCurrent ==
  \A u \in DOMAIN users :
    /\ users[u].longest_streak >= users[u].current_streak
    /\ users[u].current_streak >= 0

\* a streak of 2 was reset by a gap: the longest streak stays above it
StreakResetBelowLongest ==
  \E u \in DOMAIN users :
    /\ users[u].longest_streak = 2
    /\ users[u].current_streak = 1
    /\ users[u].last_active_local_date = 3

\* C3: completion requests of one user that overlap in time do not
\* interleave their read of the user row with the other's write: a request
\* that has read its req.user holds the stored row until its handler has
\* run, and the user's totalXP is the sum of the gainedXP of all its rows,
\* its last active date and streak those of its latest completion.
NoLostUpdate ==
  /\ \A i \in DOMAIN req :
       req[i].stage = "entered" => req[i].user = users[req[i].uid]
  /\ \A u \in DOMAIN users :
       /\ users[u].total_xp = SumXP(runs, u) + SumXP(routine_logs, u)
       /\ \A i \in 1..Len(runs) :
            runs[i].user_id = u =>
              /\ users[u].last_active_local_date >= runs[i].local_date
              /\ users[u].current_streak >= 1
       /\ \A i \in 1..Len(routine_logs) :
            routine_logs[i].user_id = u =>
              /\ users[u].last_active_local_date >= routine_logs[i].local_date
              /\ users[u].current_streak >= 1

\* two requests of one user, the second received while the first was in
\* flight, both answered 200
OverlappingRequestsServed ==
  /\ Len(req) = 2
  /\ req[1].uid = req[2].uid
  /\ req[2].with = {1}
  /\ req[1].stage = "done" /\ req[1].status = 200
  /\ req[2].stage = "done" /\ req[2].status = 200
  /\ Len(runs) + Len(routine_logs) = 2

\* C4: the write of a completion is atomic: in every state a user's totalXP
\* is the sum of gainedXP over the user's runs and routine_logs rows, a
\* failed write included, and every row belongs to a stored user.
XPMatchesHistory ==
  /\ \A u \in DOMAIN users :
       users[u].total_xp = SumXP(runs, u) + SumXP(routine_logs, u)
  /\ \A i \in 1..Len(runs) : runs[i].user_id \in DOMAIN users
  /\ \A i \in 1..Len(routine_logs) : routine_logs[i].user_id \in DOMAIN users

\* a completion whose write failed, after a quest run and a routine log
\* that were recorded
WriteFailedAfterCompletions ==
  /\ last.op \in {"run", "log"}
  /\ last.status = 500
  /\ Len(runs) >= 1
  /\ Len(routine_logs) >= 1

\* the instants at which uid ran questId, among rows rs
RunTimes(rs, uid, questId) ==
  {rs[i].created_at : i \in {j \in 1..Len(rs) :
                               rs[j].user_id = uid /\ rs[j].quest_id = questId}}

\* C5: for a quest with cooldown c > 0 whose latest run by the user was
\* created at t0, an attempt at t with t - t0 < c is answered 429 with
\* retryAfterSec = ceil(c - (t - t0)) in whole seconds, an attempt with
\* t - t0 >= c is accepted; no two runs of one (user, quest) are less than
\* c apart.
CooldownGates ==
  /\ \A i, j \in 1..Len(runs) :
       ( /\ i < j
         /\ runs[i].user_id = runs[j].user_id
         /\ runs[i].quest_id = runs[j].quest_id
         /\ Quests[runs[i].quest_id].cooldown_sec > 0 )
       => runs[j].created_at - runs[i].created_at
            >= Quests[runs[i].quest_id].cooldown_sec * SecMs
  /\ ( /\ last.op = "run"
       /\ last.questId \in DOMAIN Quests
       /\ Quests[last.questId].cooldown_sec > 0 )
     => LET c == Quests[last.questId].cooldown_sec * SecMs
            before == IF last.status = 200
                      THEN SubSeq(runs, 1, Len(runs) - 1) ELSE runs
            T == RunTimes(before, last.uid, last.questId)
        IN  IF T = {} THEN last.status = 200
            ELSE LET t0 == CHOOSE x \in T : \A y \in T : y <= x
                     elapsed == last.at - t0
                 IN  IF elapsed < c
                     THEN /\ last.status = 429
                          /\ last.retryAfterSec * SecMs >= c - elapsed
                          /\ (last.retryAfterSec - 1) * SecMs < c - elapsed
                     ELSE last.status = 200

\* q2 (c = 3600) run at t0 and accepted again at t0 + 3601 s; an attempt
\* 1800 s after that run is answered 429 with retryAfterSec = 1800
RejectedHalfwayThrough ==
  /\ Len(runs) = 2
  /\ runs[1].quest_id = "q2" /\ runs[2].quest_id = "q2"
  /\ runs[2].created_at = runs[1].created_at + 3601 * SecMs
  /\ last.op = "run" /\ last.questId = "q2"
  /\ last.status = 429
  /\ last.at = runs[2].created_at + 1800 * SecMs
  /\ last.retryAfterSec = 1800

\* C6: for every routine, user and local date the number of routine_logs
\* rows does not exceed the routine's daily_target.
LogsWithinDailyTarget ==
  \A id \in 1..Len(routines), d \in 0..MaxDay :
    countRoutineLogsToday(routine_logs, id, routines[id].user_id, d)
        * routines[id].daily_target.d
      <= routines[id].daily_target.n

\* C7: a user's totalXP is non-negative and no step decreases it.
XPNeverDecreases ==
  [][\A u \in DOMAIN users' :
       /\ users'[u].total_xp >= 0
       /\ users'[u].total_xp >= Stored(u).total_xp]_vars

\* C8, as the specification states it: a completion that raises the level
\* from 3 to 11 raises avatarTier by exactly 1.
JumpPromotesOnce ==
  [][\A u \in DOMAIN users' :
       Stored(u).level = 3 /\ users'[u].level = 11
         => users'[u].avatar_tier = Stored(u).avatar_tier + 1]_vars

\* C8: a completion that raises the level from 3 to 11 leaves avatarTier
\* unchanged: the level it ends on is not a multiple of 5.
JumpLeavesTier ==
  [][\A u \in DOMAIN users' :
       Stored(u).level = 3 /\ users'[u].level = 11
         => users'[u].avatar_tier = Stored(u).avatar_tier]_vars

\* two runs of q1 on one day (22 XP, level 3), then a log of a routine of
\* 400 points: 442 XP, level 11
JumpedFromThreeToEleven ==
  /\ Len(runs) = 2 /\ Len(routine_logs) = 1
  /\ "u1" \in DOMAIN users
  /\ computeLevel(SumXP(runs, "u1")) = 3
  /\ users["u1"].total_xp = SumXP(runs, "u1") + routine_logs[1].gained_xp
  /\ users["u1"].level = 11

\* C9: no step lowers a user's avatar_tier, and no step raises it by more
\* than 1.
TierStepsByOne ==
  [][\A u \in DOMAIN users' :
       /\ users'[u].avatar_tier >= Stored(u).avatar_tier
       /\ users'[u].avatar_tier <= Stored(u).avatar_tier + 1]_vars

\* a first log of 400 points takes the level from 1 to 11, past 5 and 10,
\* and a second one to 15: one promotion
PromotedAfterLongJump ==
  /\ Len(routine_logs) = 2 /\ Len(runs) = 0
  /\ "u1" \in DOMAIN users
  /\ computeLevel(routine_logs[1].gained_xp) = 11
  /\ users["u1"].level = 15
  /\ users["u1"].avatar_tier = 1

\* C10: the gainedXP of a completion is basePoints times the multiplier of
\* the streak after the event's streak update, rounded half up.
GainIsRoundHalfUp ==
  ( /\ last.op \in {"run", "log"}
    /\ last.status = 200 )
  => LET base == IF last.op = "run"
                 THEN Whole(Quests[last.questId].base_points)
                 ELSE routines[last.routineId].base_points
         mult == streakMultiplier(users[last.uid].current_streak)
     IN  /\ last.mult = mult
         /\ last.gainedXP = RoundHalfUp(base, mult)

\* The example of C10 as the code computes it: a first-ever completion, a
\* run of q1 (10 points), gives currentStreak 1, multiplier 1.05, gainedXP
\* 11, totalXP 11 and level computeLevel(11) = floor(sqrt(11) / 2) + 1 = 2.
FirstRunOfQ1 ==
  ( /\ Len(runs) = 1 /\ Len(routine_logs) = 0
    /\ runs[1].quest_id = "q1" )
  => LET u == users[runs[1].user_id]
     IN  /\ u.current_streak = 1
         /\ streakMultiplier(u.current_streak) = 105
         /\ runs[1].gained_xp = 11
         /\ u.total_xp = 11
         /\ u.level = 2

\* a step that leaves everything but the clock as it was
ClockOnly == UNCHANGED <<users, runs, routines, routine_logs, req, pending, last>>

\* C11: a completion request answered with a rejection (400 for a quest id
\* that is no active quest, 404 for a routine that is missing or not the
\* requester's, 429 for an active cooldown, 400 for a daily target reached)
\* leaves every user row and every runs, routine_logs and routines row as it
\* was; the requester's row is the one the middleware found or created.
RejectionChangesNothing ==
  [][( /\ ~ClockOnly
       /\ last'.op \in {"run", "log"}
       /\ last'.status \in {400, 404, 429} )
     => /\ users' = EnsureUser(users, last'.uid)
        /\ runs' = runs
        /\ routine_logs' = routine_logs
        /\ routines' = routines]_vars

\* u2 has earned XP and is answered 404 for a log of a routine of u1
RejectedLogOfAnothersRoutine ==
  /\ last.op = "log" /\ last.status = 404
  /\ last.routineId \in 1..Len(routines)
  /\ routines[last.routineId].user_id # last.uid
  /\ users[last.uid].total_xp > 0
  /\ Len(runs) + Len(routine_logs) = 3

\* the user's routine logs dated d
LogsOn(uid, d) ==
  Cardinality({i \in 1..Len(routine_logs) :
     routine_logs[i].user_id = uid /\ routine_logs[i].local_date = d})

RECURSIVE TargetSum(_, _)
\* the sum of daily_target over the user's active routines, as a fraction
TargetSum(rts, uid) ==
  IF rts = <<>> THEN Whole(0)
  ELSE LET r == Head(rts)
           rest == TargetSum(Tail(rts), uid)
       IN  IF r.user_id = uid /\ r.active = 1
           THEN Frac(r.daily_target.n * rest.d + rest.n * r.daily_target.d,
                     r.daily_target.d * rest.d)
           ELSE rest

\* C12: the weekly insights of a user on date today report, over the seven
\* dates today-6 .. today, daysMetTarget = the number of dates whose
\* routine-log count is >= dailyTargetTotal (the sum of daily_target over
\* the user's active routines) when that total is > 0, completionRate =
\* round(100 * daysMetTarget / 7) when the total is > 0 and 0 otherwise,
\* and riskBand Green from 70, Amber from 40, else Red.
InsightsClassify ==
  last.op = "insights" =>
    LET uid == last.uid
        today == localDateISO(last.at)
        total == TargetSum(routines, uid)
        met == {d \in (today - 6)..today :
                  total.n > 0 /\ LogsOn(uid, d) * total.d >= total.n}
        rate == IF total.n > 0
                THEN CHOOSE r \in 0..100 :
                       /\ 2 * (7 * r - 100 * Cardinality(met)) <= 7
                       /\ 2 * (100 * Cardinality(met) - 7 * r) < 7
                ELSE 0
    IN  /\ last.daysMetTarget = Cardinality(met)
        /\ last.completionRate = rate
        /\ last.riskBand = IF rate >= 70 THEN "Green"
                           ELSE IF rate >= 40 THEN "Amber" ELSE "Red"
        /\ (\A d \in (today - 6)..today : LogsOn(uid, d) = 0)
             => last.completionRate = 0 /\ last.riskBand = "Red"
        /\ total.n = 0 => last.completionRate = 0

\* C13: a preference update leaves every field its body does not give as
\* it was stored: the preferences not given, email and password_hash, and
\* totalXP, level, currentStreak, longestStreak, lastActiveDate, avatarTier;
\* it changes no other user and no row.
PrefsKeepUntouched ==
  [][( /\ ~ClockOnly
       /\ last'.op = "prefs" )
     => LET uid == last'.uid
            old == Stored(uid)
            new == users'[uid]
            b == last'.body
        IN  /\ \A f \in {"email", "password_hash", "total_xp", "level",
                         "current_streak", "longest_streak",
                         "last_active_local_date", "avatar_tier", "timezone"} :
                 new[f] = old[f]
            /\ b.themeColor = Undefined => new.theme_color = old.theme_color
            /\ b.dailyTarget = Undefined => new.daily_target = old.daily_target
            /\ b.goals = Undefined => new.goals_json = old.goals_json
            /\ b.baselineMood = Undefined => new.baseline_mood = old.baseline_mood
            /\ b.onboardingDone = Undefined
                 => new.onboarding_done = old.onboarding_done
            /\ \A x \in DOMAIN users' \ {uid} : x \in DOMAIN users /\ users'[x] = users[x]
            /\ runs' = runs /\ routine_logs' = routine_logs
            /\ routines' = routines]_vars

\* a registered user with XP and a changed theme and mood sends only
\* dailyTarget: theme, mood, goals and email are as they were
OnlyDailyTargetSent ==
  /\ last.op = "prefs"
  /\ last.body = [NoPrefs EXCEPT !.dailyTarget = Num(3, 1)]
  /\ users[last.uid].daily_target = 3
  /\ users[last.uid].theme_color = "#000000"
  /\ users[last.uid].baseline_mood = "calm"
  /\ users[last.uid].goals_json = "[\"sleep\"]"
  /\ users[last.uid].email = "a@x"
  /\ users[last.uid].total_xp > 0

\* C14: the weekly insights of an existing user change no user row and no
\* runs, routine_logs or routines row, however often they are asked for.
InsightsReadOnly ==
  [][( /\ ~ClockOnly
       /\ last'.op = "insights"
       /\ last'.uid \in DOMAIN users )
     => UNCHANGED <<users, runs, routines, routine_logs>>]_vars

\* insights read two days after the last of four logs of a user with XP
InsightsAfterActivity ==
  /\ last.op = "insights"
  /\ Len(routine_logs) = 4
  /\ last.routineLogs = 4
  /\ users[last.uid].total_xp > 0
  /\ localDateISO(last.at) = users[last.uid].last_active_local_date + 2

\* C15: computeLevel is floor(sqrt(totalXP) / 2) + 1, that is the level v with
\* (2(v-1))^2 <= totalXP < (2v)^2; computeLevel(0) is 1; and of two calls the
\* one with the larger total never returns the smaller level.
LevelMonotone ==
  [][/\ last'.op = "computeLevel" =>
          /\ 4 * (last'.value - 1) * (last'.value - 1) <= last'.arg
          /\ last'.arg < 4 * last'.value * last'.value
          /\ (last'.arg = 0 => last'.value = 1)
     /\ ( /\ last.op = "computeLevel"
          /\ last'.op = "computeLevel"
          /\ last.arg <= last'.arg ) => last.value <= last'.value]_vars

\* a call at the top of the range, in the sixth level
LevelOfLargeTotal ==
  /\ last.op = "computeLevel"
  /\ last.arg = 100
  /\ last.value = 6

\* C19: streakMultiplier, in hundredths, is 100 below streak 1 and otherwise
\* 100 + min(5 * streak, 50) + 10 * floor(streak / 7); from streak 10 on the
\* per-day part stays at 50 while the weekly part keeps growing by 10 per
\* seven days; and of two calls the one with the longer streak never returns
\* the smaller multiplier.
MultiplierFormula ==
  [][/\ last'.op = "streakMultiplier" =>
          LET s == last'.arg
              weekly == 10 * ((s - (s % 7)) \div 7)
              perDay == IF 5 * s < 50 THEN 5 * s ELSE 50
          IN  /\ s < 1 => last'.value = 100
              /\ s >= 1 => last'.value = 100 + perDay + weekly
              /\ s >= 10 => last'.value - weekly = 150
              /\ s = 9 => last'.value - weekly = 145
     /\ ( /\ last.op = "streakMultiplier"
          /\ last'.op = "streakMultiplier"
          /\ last.arg <= last'.arg ) => last.value <= last'.value]_vars

\* a streak of three weeks: 50 per-day and 30 weekly hundredths
MultiplierAfterThreeWeeks ==
  /\ last.op = "streakMultiplier"
  /\ last.arg = 21
  /\ last.value = 180

\* C16: in every stored user row the level is the one computeLevel gives for
\* the row's total_xp, the v >= 1 with (2(v-1))^2 <= total_xp < (2v)^2, after
\* any sequence of creations, registrations, runs, logs and preference
\* updates.
LevelMatchesTotal ==
  \A id \in DOMAIN users :
    LET u == users[id]
    IN  /\ u.level >= 1
        /\ u.total_xp >= 0
        /\ 4 * (u.level - 1) * (u.level - 1) <= u.total_xp
        /\ u.total_xp < 4 * u.level * u.level

\* preferences were updated for a user who reached a level above 1 by a run
\* and a routine log
PrefsAfterLevelUp ==
  /\ last.op = "prefs"
  /\ last.status = 200
  /\ last.uid \in DOMAIN users
  /\ users[last.uid].level >= 2
  /\ \E i \in DOMAIN runs : runs[i].user_id = last.uid
  /\ \E i \in DOMAIN routine_logs : routine_logs[i].user_id = last.uid

\* C17: a completion, quest run or routine log alike, raises the completer's
\* avatar_tier by exactly 1 when the level after it is above the level before
\* it and is a multiple of 5, and leaves avatar_tier unchanged otherwise.
TierFollowsLevel ==
  [][Completed =>
       LET pre == Stored(Completer)
           post == users'[Completer]
           promoted == post.level > pre.level /\ post.level % 5 = 0
       IN  /\ promoted => post.avatar_tier = pre.avatar_tier + 1
           /\ ~promoted => post.avatar_tier = pre.avatar_tier]_vars

\* a quest run took the user from below level 5 to level 5: promoted
PromotedByRun ==
  /\ last.op = "run"
  /\ last.status = 200
  /\ last.uid \in DOMAIN users
  /\ users[last.uid].level = 5
  /\ users[last.uid].total_xp - last.gainedXP < 64
  /\ users[last.uid].avatar_tier = 1

\* C18: a completion dated before the completer's last active date sets
\* current_streak to 1, does not lower longest_streak, and stores that
\* earlier date as the last active date.
SkewResetsStreak ==
  [][( /\ Completed
       /\ Stored(Completer).last_active_local_date # NoDate
       /\ localDateISO(now) < Stored(Completer).last_active_local_date )
     => /\ users'[Completer].current_streak = 1
        /\ users'[Completer].longest_streak >= Stored(Completer).longest_streak
        /\ users'[Completer].last_active_local_date = localDateISO(now)]_vars

\* a streak of two days, then a completion dated a day before its last day
CompletedBeforeLastActive ==
  /\ Rows = 3
  /\ last.status = 200
  /\ last.uid \in DOMAIN users
  /\ users[last.uid].longest_streak = 2
  /\ users[last.uid].current_streak = 1
  /\ users[last.uid].last_active_local_date = localDateISO(last.at)
  /\ \E i \in DOMAIN runs :
        runs[i].user_id = last.uid /\ runs[i].local_date > localDateISO(last.at)

\* C20: a request of user A leaves the row of every other user and every
\* stored history row unchanged, and a row it adds is A's; a run is answered
\* 429 only when the quest has a cooldown and A ran that same quest less than
\* the cooldown ago; a log is answered 400 only when A's own logs of that
\* same routine on that date reach its daily target.
UsersIndependent ==
  [][~ClockOnly =>
       LET a == last'.uid
       IN  /\ \A b \in DOMAIN users' \ {a} :
                b \in DOMAIN users /\ users'[b] = users[b]
           /\ \A i \in DOMAIN runs : runs'[i] = runs[i]
           /\ \A i \in DOMAIN routine_logs : routine_logs'[i] = routine_logs[i]
           /\ \A i \in DOMAIN runs' \ DOMAIN runs : runs'[i].user_id = a
           /\ \A i \in DOMAIN routine_logs' \ DOMAIN routine_logs :
                routine_logs'[i].user_id = a
           /\ (last'.op = "run" /\ last'.status = 429) =>
                /\ Quests[last'.questId].cooldown_sec > 0
                /\ \E i \in DOMAIN runs :
                     /\ runs[i].user_id = a
                     /\ runs[i].quest_id = last'.questId
                     /\ last'.at - runs[i].created_at
                          < Quests[last'.questId].cooldown_sec * SecMs
           /\ (last'.op = "log" /\ last'.status = 400) =>
                IntGE(Cardinality({i \in DOMAIN routine_logs :
                         /\ routine_logs[i].user_id = a
                         /\ routine_logs[i].routine_id = last'.routineId
                         /\ routine_logs[i].local_date = localDateISO(last'.at)}),
                      routines[last'.routineId].daily_target)]_vars

\* u1 ran q2 and reached the daily target of routine 1; within the cooldown
\* u2 runs q2 and is served
ServedDuringAnothersCooldown ==
  /\ last.op = "run" /\ last.status = 200
  /\ last.uid = "u2" /\ last.questId = "q2"
  /\ \E i \in DOMAIN runs :
        /\ runs[i].user_id = "u1" /\ runs[i].quest_id = "q2"
        /\ last.at - runs[i].created_at < CooldownMs
  /\ \E i \in DOMAIN routine_logs :
        routine_logs[i].user_id = "u1" /\ routine_logs[i].routine_id = 1
  /\ users["u1"].total_xp > 0

\* C21: every stored routine has a daily_target and a base_points that are
\* positive integers, whatever the body of the request that created it.
RoutinesPositiveIntegers ==
  \A id \in 1..Len(routines) :
    /\ IsInteger(routines[id].daily_target)
    /\ routines[id].daily_target.n > 0
    /\ IsInteger(routines[id].base_points)
    /\ routines[id].base_points.n > 0

\* C23: after a successful run or log the local_date of the row it inserted
\* is the last_active_local_date it wrote to the user, and for a log it is
\* also the date the daily target was counted on, even when the local date
\* changes while the request is served.
RowDateIsLastActive ==
  /\ (last.op = "run" /\ last.status = 200) =>
        runs[Len(runs)].local_date = users[last.uid].last_active_local_date
  /\ (last.op = "log" /\ last.status = 200) =>
        /\ routine_logs[Len(routine_logs)].local_date
             = users[last.uid].last_active_local_date
        /\ routine_logs[Len(routine_logs)].local_date = localDateISO(last.at)

\* the user has a run or a routine log dated d
HasRecord(uid, d) ==
  \/ \E i \in DOMAIN runs : runs[i].user_id = uid /\ runs[i].local_date = d
  \/ \E i \in DOMAIN routine_logs :
       routine_logs[i].user_id = uid /\ routine_logs[i].local_date = d

RECURSIVE ConsecutiveDays(_, _)
\* the number of consecutive days ending at d that each have a record
ConsecutiveDays(uid, d) ==
  IF d < 0 \/ ~HasRecord(uid, d) THEN 0
  ELSE 1 + ConsecutiveDays(uid, d - 1)

\* C22: with completions in date order, a user's current_streak is the number
\* of consecutive calendar days ending at last_active_local_date that each
\* have a run or a routine log of the user, and it is 0 exactly when the
\* user has no such record.
StreakCountsRecordedDays ==
  \A uid \in DOMAIN users :
    LET u == users[uid]
        recorded == \/ \E i \in DOMAIN runs : runs[i].user_id = uid
                    \/ \E i \in DOMAIN routine_logs :
                         routine_logs[i].user_id = uid
    IN  /\ u.current_streak = 0 <=> ~recorded
        /\ u.current_streak =
             IF u.last_active_local_date = NoDate THEN 0
             ELSE ConsecutiveDays(uid, u.last_active_local_date)
====
